---- MODULE Spec2Model ----
(***************************************************************************)
(* Model of hysteria2/service.go: the per-connection session               *)
(* (serverSession: ServeHTTP, handleStream0, closeWithError), the          *)
(* connection task (handleConnection) and the proxied stream adapter       *)
(* (serverConn).                                                           *)
(***************************************************************************)
EXTENDS Integers, Sequences, FiniteSets, TLC

\* ------------------------------------------------------------------ bounds
MaxRate == 2        \* rates (bytes/second) range over 0..MaxRate
MaxReq == 2         \* HTTP requests served on the connection
MaxStreams == 2     \* stream arrivals offered to the hijacker
MaxCalls == 3       \* calls made on one stream adapter
MaxLen == 1         \* length of a buffer passed to Write
MaxUpdates == 1     \* calls of UpdateUsers
MaxClosers == 2     \* concurrent callers of closeWithError
MaxConns == 2       \* connections returned by Accept

Rates == 0 .. MaxRate
Slots == 1 .. MaxReq

\* ------------------------------------------------- protocol vocabulary
URLHost == "hysteria"
URLPath == "/auth"
StatusAuthOK == "StatusAuthOK"
FrameTypeTCPRequest == "FrameTypeTCPRequest"
NoUser == "nil"
NoHeader == [set |-> FALSE, UDPEnabled |-> FALSE, Rx |-> 0, RxAuto |-> FALSE]

Secrets == {"s1", "s2", "bad"}
Registry == [s \in {"s1", "s2"} |-> IF s = "s1" THEN "U1" ELSE "U2"]

VARIABLES
    \* Service configuration (ServiceOptions), fixed after NewService
    sendBPS, receiveBPS, ignoreClientBandwidth, udpDisabled, ctxCancellable,
    userMap,          \* Service.userMap
    upd,              \* the UpdateUsers call in progress: position and locals
    stale,            \* earlier values of Service.userMap
    racy,             \* maps stored into Service.userMap without synchronisation
    closers,          \* the calls of closeWithError in progress, one per caller
    connAccess,       \* serverSession.connAccess: 0 when free, else the holder
    doneCloses,       \* close(s.connDone) operations executed
    lcPc,             \* position of loopConnections
    accepted,         \* connections returned by listener.Accept
    spawned,          \* handleConnection goroutines started
    \* serverSession
    authenticated,    \* serverSession.authenticated
    authUser,         \* serverSession.authUser
    connDone,         \* serverSession.connDone is closed
    connErr,          \* serverSession.connErr
    \* the transport connection (quicConn)
    congestion,       \* controller installed on quicConn
    ccInstalls,       \* number of controller installations
    closeCalls,       \* number of quicConn.CloseWithError calls
    \* tasks
    reqs,             \* ServeHTTP invocations: position, request, locals, response writer
    streams,          \* stream tasks started by handleStream0
    declined,         \* number of streams handleStream0 declined
    lastHijack,       \* the last handleStream0 call: its arguments and result
    watchers,         \* cancellation-watcher tasks (position of each)
    loops,            \* number of loopMessages tasks started
    hcPc,             \* position of handleConnection
    ctxCancelled,     \* s.ctx has been cancelled upstream
    logs,             \* logger output
    \* one serverConn (stream adapter) and its underlying stream
    responseWritten,  \* serverConn.responseWritten
    wire,             \* Stream.Write calls made by the adapter, in order
    ncalls,           \* number of adapter calls made
    last,             \* the last adapter call and what it returned
    streamBroken      \* the underlying stream has failed a write

cfgVars == <<sendBPS, receiveBPS, ignoreClientBandwidth, udpDisabled, ctxCancellable>>
sessVars == <<authenticated, authUser, congestion, ccInstalls, reqs, watchers, loops>>
closeVars == <<connDone, connErr, closeCalls, hcPc, ctxCancelled>>
streamVars == <<streams, declined, lastHijack>>
connVars == <<responseWritten, wire, ncalls, last, streamBroken>>
regVars == <<userMap, upd, stale, racy>>
lockVars == <<closers, connAccess, doneCloses>>
acceptVars == <<lcPc, accepted, spawned>>
vars == <<cfgVars, regVars, lockVars, acceptVars, sessVars, closeVars, streamVars, logs, connVars>>

\* ------------------------------------------------------------ requests
\* An HTTP request: its target and the two auth headers. The rate header is
\* <<>> when absent and <<x>> when it declares the rate x.
Request(method, host, path, auth, rx) ==
    [method |-> method, host |-> host, path |-> path, auth |-> auth, rx |-> rx]

\* Requests to the auth endpoint, with a registered and an unregistered
\* secret and no declared rate (the rate header is absent), the lowest or the
\* highest one.
RateHeaders == {<<>>, <<1>>, <<MaxRate>>}
AuthPosts ==
    {Request("POST", URLHost, URLPath, a, h) : a \in {"s1", "bad"}, h \in RateHeaders}

\* Requests to some other target: wrong method, wrong host or wrong path,
\* each carrying a registered secret.
OtherRequests ==
    { Request("GET", URLHost, URLPath, "s1", <<1>>),
      Request("POST", "example.org", URLPath, "s1", <<1>>),
      Request("POST", URLHost, "/index.html", "s1", <<1>>) }

ReqInputs == AuthPosts \cup OtherRequests

\* protocol.AuthRequestFromHeader: the secret and the declared receive rate,
\* 0 when the rate header is absent.
AuthRequestFromHeader(r) ==
    [Auth |-> r.auth, Rx |-> IF r.rx = <<>> THEN 0 ELSE r.rx[1]]

\* protocol.AuthResponseToHeader: the three response headers.
AuthResponseToHeader(resp) ==
    [set |-> TRUE, UDPEnabled |-> resp.UDPEnabled, Rx |-> resp.Rx, RxAuto |-> resp.RxAuto]

\* The http.ResponseWriter of one request.
NewWriter == [hdr |-> NoHeader, status |-> "none", masq |-> 0]

IdleReq ==
    [pc |-> "idle", req |-> Request("GET", "", "", "", <<>>), user |-> NoUser,
     rxAuto |-> FALSE, looked |-> FALSE, seen |-> <<>>, cur |-> <<>>, w |-> NewWriter]

\* line 204: the request is the authentication request
IsAuthRequest(r) ==
    r.method = "POST" /\ r.host = URLHost /\ r.path = URLPath

\* s.masqueradeHandler.ServeHTTP(w, r)
Masquerade(w) == [w EXCEPT !.status = "masquerade", !.masq = @ + 1]

\* lines 206-210: the response of an auth request on an authenticated session
CachedAuthResponse ==
    [UDPEnabled |-> ~udpDisabled, Rx |-> receiveBPS,
     RxAuto |-> receiveBPS = 0 /\ ignoreClientBandwidth]

\* BrutalRate without the server's send cap
BrutalRateUncapped(rx, sBPS) == rx

\* lines 228-231: the rate given to the Brutal sender
BrutalRate(rx, sBPS) ==
    IF sBPS > 0 /\ rx > sBPS THEN sBPS ELSE rx

\* lines 223-236: the congestion policy
SelectCongestion(rBPS, ignore, rx, sBPS) ==
    IF rBPS > 0 /\ ignore /\ rx = 0
    THEN [kind |-> "reject", rate |-> 0, rxAuto |-> FALSE]
    ELSE IF ~(rBPS = 0 /\ ignore) /\ rx > 0
    THEN [kind |-> "brutal", rate |-> BrutalRate(rx, sBPS), rxAuto |-> FALSE]
    ELSE [kind |-> "bbr", rate |-> 0, rxAuto |-> TRUE]

\* lines 237-241
AuthResponse(rxAuto) ==
    [UDPEnabled |-> ~udpDisabled, Rx |-> receiveBPS, RxAuto |-> rxAuto]

WriteAuthOK(w, resp) ==
    [w EXCEPT !.hdr = AuthResponseToHeader(resp), !.status = StatusAuthOK]

\* ------------------------------------------------------- UpdateUsers
\* The arguments of UpdateUsers: userList and passwordList, as pairs.
UserLists ==
    { << >>,
      << <<"U2", "s2">> >>,
      << <<"U1", "s1">>, <<"U2", "s2">> >> }

IdleUpdate == [pc |-> "idle", list |-> << >>, i |-> 1, userMap |-> << >>, returned |-> 0]

\* A map with the entry k -> v added or replaced
MapPut(mp, k, v) == [x \in DOMAIN mp \cup {k} |-> IF x = k THEN v ELSE mp[x]]

\* The entries of mp with keys in D
MapRestrict(mp, D) == [x \in D |-> mp[x]]

\* line 129: the new map is made
UpdateUsers_Begin(list) ==
    /\ upd.pc = "idle"
    /\ upd.returned < MaxUpdates
    /\ upd' = [upd EXCEPT !.pc = "building", !.list = list, !.i = 1, !.userMap = << >>]
    /\ UNCHANGED <<cfgVars, userMap, stale, racy, lockVars, acceptVars, sessVars, closeVars, streamVars,
                   logs, connVars>>

\* lines 130-132: one entry is put into the new map
UpdateUsers_Put ==
    /\ upd.pc = "building"
    /\ upd.i <= Len(upd.list)
    /\ upd' = [upd EXCEPT !.userMap = MapPut(@, upd.list[upd.i][2], upd.list[upd.i][1]),
                          !.i = @ + 1]
    /\ UNCHANGED <<cfgVars, userMap, stale, racy, lockVars, acceptVars, sessVars, closeVars, streamVars,
                   logs, connVars>>

\* line 133 followed by a de-authentication of the session whose secret the
\* new registry no longer holds
UpdateUsers_StoreRevoke ==
    /\ upd.pc = "building"
    /\ upd.i > Len(upd.list)
    /\ userMap' = upd.userMap
    /\ stale' = stale \cup {userMap}
    /\ racy' = racy \cup {upd.userMap}
    /\ upd' = [upd EXCEPT !.pc = "idle", !.returned = @ + 1]
    /\ authenticated' =
          (authenticated /\ \E k \in DOMAIN upd.userMap : upd.userMap[k] = authUser)
    /\ UNCHANGED <<cfgVars, lockVars, acceptVars, authUser, congestion, ccInstalls,
                   reqs, watchers, loops, closeVars, streamVars, logs, connVars>>

\* line 133: s.userMap = userMap, a plain store, and UpdateUsers returns
UpdateUsers_Store ==
    /\ upd.pc = "building"
    /\ upd.i > Len(upd.list)
    /\ userMap' = upd.userMap
    /\ stale' = stale \cup {userMap}
    /\ racy' = racy \cup {upd.userMap}
    /\ upd' = [upd EXCEPT !.pc = "idle", !.returned = @ + 1]
    /\ UNCHANGED <<cfgVars, lockVars, acceptVars, sessVars, closeVars, streamVars,
                   logs, connVars>>

\* line 215: what an unsynchronised read of s.userMap and of the map behind
\* it can observe. The read has no happens-before relation with the store at
\* line 133 or with the puts at line 131: it may see the latest map or an
\* earlier one, and of a map stored by UpdateUsers any part of its entries.
ObservableMaps ==
    UNION { IF mp \in racy
            THEN {MapRestrict(mp, D) : D \in SUBSET DOMAIN mp}
            ELSE {mp} : mp \in {userMap} \cup stale }

\* --------------------------------------------------------- ServeHTTP
\* lines 203-213, 255-257: routing, and the reply on an authenticated session
ServeHTTP_Route(i, r) ==
    /\ reqs[i].pc = "idle"
    /\ \A j \in Slots : j < i => reqs[j].pc # "idle"
    /\ hcPc = "serving"
    /\ closeCalls = 0
    /\ IF ~IsAuthRequest(r)
       THEN reqs' = [reqs EXCEPT ![i] =
                [@ EXCEPT !.pc = "done", !.req = r, !.w = Masquerade(@)]]
       ELSE IF authenticated
       THEN reqs' = [reqs EXCEPT ![i] =
                [@ EXCEPT !.pc = "done", !.req = r,
                          !.w = WriteAuthOK(@, CachedAuthResponse)]]
       ELSE reqs' = [reqs EXCEPT ![i] = [@ EXCEPT !.pc = "lookup", !.req = r]]
    /\ UNCHANGED <<cfgVars, regVars, lockVars, acceptVars, authenticated, authUser, congestion, ccInstalls,
                   watchers, loops, closeVars, streamVars, logs, connVars>>

\* ServeHTTP_Lookup answering an unknown secret with a bare auth-success status
ServeHTTP_LookupLeaky(i) ==
    /\ reqs[i].pc = "lookup"
    /\ \E um \in ObservableMaps :
         LET request == AuthRequestFromHeader(reqs[i].req)
             loaded == request.Auth \in DOMAIN um
         IN IF ~loaded
            THEN reqs' = [reqs EXCEPT ![i] =
                     [@ EXCEPT !.pc = "done", !.looked = TRUE, !.seen = um,
                               !.cur = userMap, !.w.status = StatusAuthOK]]
            ELSE reqs' = [reqs EXCEPT ![i] =
                     [@ EXCEPT !.pc = "bindUser", !.looked = TRUE, !.seen = um,
                               !.cur = userMap, !.user = um[request.Auth]]]
    /\ UNCHANGED <<cfgVars, regVars, lockVars, acceptVars, authenticated, authUser, congestion, ccInstalls,
                   watchers, loops, closeVars, streamVars, logs, connVars>>

\* lines 214-219: the credential lookup
ServeHTTP_Lookup(i) ==
    /\ reqs[i].pc = "lookup"
    /\ \E um \in ObservableMaps :
         LET request == AuthRequestFromHeader(reqs[i].req)
             loaded == request.Auth \in DOMAIN um
         IN IF ~loaded
            THEN reqs' = [reqs EXCEPT ![i] =
                     [@ EXCEPT !.pc = "done", !.looked = TRUE, !.seen = um,
                               !.cur = userMap, !.w = Masquerade(@)]]
            ELSE reqs' = [reqs EXCEPT ![i] =
                     [@ EXCEPT !.pc = "bindUser", !.looked = TRUE, !.seen = um,
                               !.cur = userMap, !.user = um[request.Auth]]]
    /\ UNCHANGED <<cfgVars, regVars, lockVars, acceptVars, authenticated, authUser, congestion, ccInstalls,
                   watchers, loops, closeVars, streamVars, logs, connVars>>

\* line 220
ServeHTTP_BindUser(i) ==
    /\ reqs[i].pc = "bindUser"
    /\ authUser' = reqs[i].user
    /\ reqs' = [reqs EXCEPT ![i].pc = "setAuth"]
    /\ UNCHANGED <<cfgVars, regVars, lockVars, acceptVars, authenticated, congestion, ccInstalls,
                   watchers, loops, closeVars, streamVars, logs, connVars>>

\* line 221
ServeHTTP_SetAuthenticated(i) ==
    /\ reqs[i].pc = "setAuth"
    /\ authenticated' = TRUE
    /\ reqs' = [reqs EXCEPT ![i].pc = "select"]
    /\ UNCHANGED <<cfgVars, regVars, lockVars, acceptVars, authUser, congestion, ccInstalls,
                   watchers, loops, closeVars, streamVars, logs, connVars>>

\* lines 222-236: the congestion policy is applied
ServeHTTP_Select(i) ==
    /\ reqs[i].pc = "select"
    /\ LET request == AuthRequestFromHeader(reqs[i].req)
           sel == SelectCongestion(receiveBPS, ignoreClientBandwidth, request.Rx, sendBPS)
       IN IF sel.kind = "reject"
          THEN /\ logs' = Append(logs, [level |-> "debug", msg |-> "BBR disabled by server"])
               /\ reqs' = [reqs EXCEPT ![i] = [@ EXCEPT !.pc = "done", !.w = Masquerade(@)]]
               /\ UNCHANGED <<congestion, ccInstalls>>
          ELSE /\ congestion' = [kind |-> sel.kind, rate |-> sel.rate]
               /\ ccInstalls' = ccInstalls + 1
               /\ reqs' = [reqs EXCEPT ![i] =
                      [@ EXCEPT !.pc = "respond", !.rxAuto = sel.rxAuto]]
               /\ UNCHANGED logs
    /\ UNCHANGED <<cfgVars, regVars, lockVars, acceptVars, authenticated, authUser,
                   watchers, loops, closeVars, streamVars, connVars>>

\* lines 237-254: the auth response is written, then the watcher and the
\* datagram loop are started
ServeHTTP_Respond(i) ==
    /\ reqs[i].pc = "respond"
    /\ reqs' = [reqs EXCEPT ![i] =
           [@ EXCEPT !.pc = "done", !.w = WriteAuthOK(@, AuthResponse(reqs[i].rxAuto))]]
    /\ watchers' = IF ctxCancellable THEN Append(watchers, "waiting") ELSE watchers
    /\ loops' = IF ~udpDisabled THEN loops + 1 ELSE loops
    /\ UNCHANGED <<cfgVars, regVars, lockVars, acceptVars, authenticated, authUser, congestion, ccInstalls,
                   closeVars, streamVars, logs, connVars>>

\* ------------------------------------------------------ handleStream0
\* lines 260-278: the stream hijacker, called by the HTTP/3 server for a
\* stream with an unknown frame type; a claimed stream gets its own task.
\* handleStream0 without the authentication check
handleStream0NoAuth(frameType, err) ==
    /\ Len(streams) + declined < MaxStreams
    /\ hcPc = "serving"
    /\ closeCalls = 0
    /\ IF err \/ frameType # FrameTypeTCPRequest
       THEN /\ declined' = declined + 1
            /\ lastHijack' = [frameType |-> frameType, err |-> err, claimed |-> FALSE]
            /\ UNCHANGED streams
       ELSE /\ streams' = Append(streams,
                   [pc |-> "handleStream", hErr |-> FALSE, handlerErr |-> FALSE,
                    user |-> NoUser, cancelReads |-> 0, closes |-> 0])
            /\ lastHijack' = [frameType |-> frameType, err |-> err, claimed |-> TRUE]
            /\ UNCHANGED declined
    /\ UNCHANGED <<cfgVars, regVars, lockVars, acceptVars, sessVars, closeVars, logs, connVars>>

NoHijack == [frameType |-> "none", err |-> FALSE, claimed |-> FALSE]

\* lines 267-276: the task of a claimed stream, about to run handleStream
NewStreamTask ==
    [pc |-> "handleStream", hErr |-> FALSE, handlerErr |-> FALSE, user |-> NoUser,
     cancelReads |-> 0, closes |-> 0]

handleStream0(frameType, err) ==
    /\ Len(streams) + declined < MaxStreams
    /\ hcPc = "serving"
    /\ closeCalls = 0
    /\ IF ~authenticated \/ err
       THEN /\ declined' = declined + 1
            /\ lastHijack' = [frameType |-> frameType, err |-> err, claimed |-> FALSE]
            /\ UNCHANGED streams
       ELSE IF frameType # FrameTypeTCPRequest
       THEN /\ declined' = declined + 1
            /\ lastHijack' = [frameType |-> frameType, err |-> err, claimed |-> FALSE]
            /\ UNCHANGED streams
       ELSE /\ streams' = Append(streams, NewStreamTask)
            /\ lastHijack' = [frameType |-> frameType, err |-> err, claimed |-> TRUE]
            /\ UNCHANGED declined
    /\ UNCHANGED <<cfgVars, regVars, lockVars, acceptVars, sessVars, closeVars, logs, connVars>>

\* ------------------------------------------------------- handleStream
\* lines 281-285: the request frame is read; on success the handler's context
\* gets the session's identity
Stream_ReadRequest(t, ok) ==
    /\ streams[t].pc = "handleStream"
    /\ IF ~ok
       THEN streams' = [streams EXCEPT ![t] = [@ EXCEPT !.pc = "returned", !.hErr = TRUE]]
       ELSE streams' = [streams EXCEPT ![t] = [@ EXCEPT !.pc = "handler", !.user = authUser]]
    /\ UNCHANGED <<cfgVars, regVars, lockVars, acceptVars, sessVars, closeVars, declined, lastHijack,
                   logs, connVars>>

\* lines 286-290: the downstream handler (NewConnection) returns, with or
\* without an error; its result is dropped and handleStream returns nil
Stream_HandlerReturns(t, failed) ==
    /\ streams[t].pc = "handler"
    /\ streams' = [streams EXCEPT ![t] =
           [@ EXCEPT !.pc = "returned", !.handlerErr = failed, !.hErr = FALSE]]
    /\ UNCHANGED <<cfgVars, regVars, lockVars, acceptVars, sessVars, closeVars, declined, lastHijack,
                   logs, connVars>>

\* Stream_Finish closing the stream only when handleStream failed
Stream_FinishOnErrorOnly(t) ==
    /\ streams[t].pc = "returned"
    /\ IF streams[t].hErr
       THEN /\ streams' = [streams EXCEPT ![t] =
                   [@ EXCEPT !.pc = "closed", !.cancelReads = @ + 1, !.closes = @ + 1]]
            /\ logs' = Append(logs, [level |-> "error", msg |-> "handle stream request"])
       ELSE /\ streams' = [streams EXCEPT ![t].pc = "closed"]
            /\ UNCHANGED logs
    /\ UNCHANGED <<cfgVars, regVars, lockVars, acceptVars, sessVars, closeVars, declined, lastHijack, connVars>>

\* lines 269-275: the stream is read-cancelled and closed, and an error of
\* handleStream is logged
Stream_Finish(t) ==
    /\ streams[t].pc = "returned"
    /\ IF streams[t].hErr
       THEN /\ streams' = [streams EXCEPT ![t] =
                   [@ EXCEPT !.pc = "closed", !.cancelReads = @ + 2, !.closes = @ + 2]]
            /\ logs' = Append(logs, [level |-> "error", msg |-> "handle stream request"])
       ELSE /\ streams' = [streams EXCEPT ![t] =
                   [@ EXCEPT !.pc = "closed", !.cancelReads = @ + 1, !.closes = @ + 1]]
            /\ UNCHANGED logs
    /\ UNCHANGED <<cfgVars, regVars, lockVars, acceptVars, sessVars, closeVars, declined, lastHijack, connVars>>

\* ----------------------------------------------------------- teardown
\* E.IsClosedOrCanceled(err)
IsClosedOrCanceled(err) == err \in {"context canceled", "closed"}

\* lines 293-309, run under connAccess: the state after closeWithError(err)
closeWithError(err) ==
    IF connDone
    THEN UNCHANGED <<connDone, connErr, logs, closeCalls>>
    ELSE /\ connErr' = err
         /\ connDone' = TRUE
         /\ logs' = Append(logs,
                [level |-> IF IsClosedOrCanceled(err) THEN "debug" ELSE "error",
                 msg |-> "connection failed"])
         /\ closeCalls' = closeCalls + 1

\* closeWithError step by step, for callers running concurrently. The callers
\* are the watcher (line 246) and the datagram loop.
Closers == 1 .. MaxClosers
CloseErrors == {"context canceled", "receive failed"}
IdleCloser == [pc |-> "idle", err |-> "nil", transportCloses |-> 0]

\* closeWithError(err) is called
closeWithError_Call(k, err) ==
    /\ closers[k].pc = "idle"
    /\ closers' = [closers EXCEPT ![k] = [@ EXCEPT !.pc = "lock", !.err = err]]
    /\ UNCHANGED <<cfgVars, regVars, connAccess, doneCloses, acceptVars, sessVars,
                   closeVars, streamVars, logs, connVars>>

\* line 294 without the mutual exclusion of the mutex
closeWithError_LockShared(k) ==
    /\ closers[k].pc = "lock"
    /\ connAccess' = k
    /\ closers' = [closers EXCEPT ![k].pc = "select"]
    /\ UNCHANGED <<cfgVars, regVars, doneCloses, acceptVars, sessVars,
                   closeVars, streamVars, logs, connVars>>

\* line 294: s.connAccess.Lock()
closeWithError_Lock(k) ==
    /\ closers[k].pc = "lock"
    /\ connAccess = 0
    /\ connAccess' = k
    /\ closers' = [closers EXCEPT ![k].pc = "select"]
    /\ UNCHANGED <<cfgVars, regVars, doneCloses, acceptVars, sessVars,
                   closeVars, streamVars, logs, connVars>>

\* lines 296-299: the select on s.connDone; return (to the deferred unlock)
\* when it is closed, the default case otherwise
closeWithError_Select(k) ==
    /\ closers[k].pc = "select"
    /\ closers' = [closers EXCEPT ![k].pc = IF connDone THEN "unlock" ELSE "setErr"]
    /\ UNCHANGED <<cfgVars, regVars, connAccess, doneCloses, acceptVars, sessVars,
                   closeVars, streamVars, logs, connVars>>

\* line 300: s.connErr = err
closeWithError_SetErr(k) ==
    /\ closers[k].pc = "setErr"
    /\ connErr' = closers[k].err
    /\ closers' = [closers EXCEPT ![k].pc = "closeDone"]
    /\ UNCHANGED <<cfgVars, regVars, connAccess, doneCloses, acceptVars, sessVars,
                   connDone, closeCalls, hcPc, ctxCancelled, streamVars, logs, connVars>>

\* line 301: close(s.connDone)
closeWithError_CloseDone(k) ==
    /\ closers[k].pc = "closeDone"
    /\ connDone' = TRUE
    /\ doneCloses' = doneCloses + 1
    /\ closers' = [closers EXCEPT ![k].pc = "log"]
    /\ UNCHANGED <<cfgVars, regVars, connAccess, acceptVars, sessVars,
                   connErr, closeCalls, hcPc, ctxCancelled, streamVars, logs, connVars>>

\* lines 303-307: the teardown log entry
closeWithError_Log(k) ==
    /\ closers[k].pc = "log"
    /\ logs' = Append(logs,
           [level |-> IF IsClosedOrCanceled(closers[k].err) THEN "debug" ELSE "error",
            msg |-> "connection failed"])
    /\ closers' = [closers EXCEPT ![k].pc = "closeTransport"]
    /\ UNCHANGED <<cfgVars, regVars, connAccess, doneCloses, acceptVars, sessVars,
                   closeVars, streamVars, connVars>>

\* line 308: s.quicConn.CloseWithError(0, "")
closeWithError_CloseTransport(k) ==
    /\ closers[k].pc = "closeTransport"
    /\ closeCalls' = closeCalls + 1
    /\ closers' = [closers EXCEPT ![k] =
           [@ EXCEPT !.pc = "unlock", !.transportCloses = @ + 1]]
    /\ UNCHANGED <<cfgVars, regVars, connAccess, doneCloses, acceptVars, sessVars,
                   connDone, connErr, hcPc, ctxCancelled, streamVars, logs, connVars>>

\* line 295: the deferred s.connAccess.Unlock(), and the call returns. The
\* caller may call again.
closeWithError_Unlock(k) ==
    /\ closers[k].pc = "unlock"
    /\ connAccess' = 0
    /\ closers' = [closers EXCEPT ![k].pc = "idle"]
    /\ UNCHANGED <<cfgVars, regVars, doneCloses, acceptVars, sessVars,
                   closeVars, streamVars, logs, connVars>>

\* The upstream context (ServiceOptions.Context) is cancelled.
CancelContext ==
    /\ ctxCancellable
    /\ ~ctxCancelled
    /\ ctxCancelled' = TRUE
    /\ UNCHANGED <<cfgVars, regVars, lockVars, acceptVars, sessVars, connDone, connErr, closeCalls, hcPc,
                   streamVars, logs, connVars>>

\* lines 245-247: the watcher's select takes the s.ctx.Done() case
Watcher_Cancelled(k) ==
    /\ watchers[k] = "waiting"
    /\ ctxCancelled
    /\ closeWithError("context canceled")
    /\ watchers' = [watchers EXCEPT ![k] = "done"]
    /\ UNCHANGED <<cfgVars, regVars, lockVars, acceptVars, authenticated, authUser, congestion, ccInstalls,
                   reqs, loops, hcPc, ctxCancelled, streamVars, connVars>>

\* line 248: the watcher's select takes the s.connDone case
Watcher_ConnDone(k) ==
    /\ watchers[k] = "waiting"
    /\ connDone
    /\ watchers' = [watchers EXCEPT ![k] = "done"]
    /\ UNCHANGED <<cfgVars, regVars, lockVars, acceptVars, authenticated, authUser, congestion, ccInstalls,
                   reqs, loops, closeVars, streamVars, logs, connVars>>

\* line 186: httpServer.ServeQUICConn returns, because the connection ended
\* on its own or because the transport was closed
HandleConnection_Served ==
    /\ hcPc = "serving"
    /\ hcPc' = "served"
    /\ UNCHANGED <<cfgVars, regVars, lockVars, acceptVars, sessVars, connDone, connErr, closeCalls,
                   ctxCancelled, streamVars, logs, connVars>>

\* line 187: connection.CloseWithError(0, "")
HandleConnection_Close ==
    /\ hcPc = "served"
    /\ hcPc' = "closed"
    /\ closeCalls' = closeCalls + 1
    /\ UNCHANGED <<cfgVars, regVars, lockVars, acceptVars, sessVars, connDone, connErr,
                   ctxCancelled, streamVars, logs, connVars>>

\* --------------------------------------------------- loopConnections
\* The errors of listener.Accept
AcceptErrors == {"context canceled", "server closed", "accept failed"}

\* line 161: listener.Accept returns a connection
LoopConnections_Accept ==
    /\ lcPc = "accepting"
    /\ accepted < MaxConns
    /\ accepted' = accepted + 1
    /\ lcPc' = "spawn"
    /\ UNCHANGED <<cfgVars, regVars, lockVars, spawned, sessVars, closeVars,
                   streamVars, logs, connVars>>

\* line 170: go s.handleConnection(connection), and the loop is at Accept again
LoopConnections_Spawn ==
    /\ lcPc = "spawn"
    /\ spawned' = spawned + 1
    /\ lcPc' = "accepting"
    /\ UNCHANGED <<cfgVars, regVars, lockVars, accepted, sessVars, closeVars,
                   streamVars, logs, connVars>>

\* The log entry of lines 163-167
ListenerLog(err) ==
    [level |-> IF IsClosedOrCanceled(err) \/ err = "server closed"
               THEN "debug" ELSE "error",
     msg |-> "listener closed"]

\* An Accept error that is logged while the loop goes on accepting
LoopConnections_FailRetry(err) ==
    /\ lcPc = "accepting"
    /\ Len(logs) < MaxConns
    /\ logs' = Append(logs, ListenerLog(err))
    /\ UNCHANGED <<cfgVars, regVars, lockVars, acceptVars, sessVars, closeVars,
                   streamVars, connVars>>

\* lines 162-169: listener.Accept returns an error; one log entry, return
LoopConnections_Fail(err) ==
    /\ lcPc = "accepting"
    /\ logs' = Append(logs, ListenerLog(err))
    /\ lcPc' = "exited"
    /\ UNCHANGED <<cfgVars, regVars, lockVars, accepted, spawned, sessVars, closeVars,
                   streamVars, connVars>>

\* ------------------------------------------------------- serverConn
Byte == {0, 1}
Buffers == UNION {[1 .. n -> Byte] : n \in 0 .. MaxLen}
NoCall == [op |-> "none", p |-> <<>>, n |-> 0, err |-> "nil"]

\* protocol.WriteTCPResponse: the response frame, a header (status, message,
\* padding), counted as one unit of length, followed by the inline payload
WriteTCPResponse(ok, msg, payload) ==
    [frame |-> TRUE, ok |-> ok, msg |-> msg, payload |-> payload,
     size |-> 1 + Len(payload)]

\* bytes handed to the stream as they are
RawBytes(p) ==
    [frame |-> FALSE, ok |-> FALSE, msg |-> "", payload |-> p, size |-> Len(p)]

\* quic.Stream.Write(b): all of b is written, or the write fails after a
\* part of it; a stream that failed a write fails every later one.
StreamResults(b) ==
    IF streamBroken
    THEN {[n |-> 0, err |-> "stream"]}
    ELSE {[n |-> b.size, err |-> "nil"]} \cup
         {[n |-> k, err |-> "stream"] : k \in 0 .. b.size - 1}

StreamWrite(b, res) ==
    /\ wire' = Append(wire, [buf |-> b, n |-> res.n, err |-> res.err, call |-> ncalls + 1])
    /\ streamBroken' = (streamBroken \/ res.err # "nil")

Returned(op, p, n, err) ==
    /\ last' = [op |-> op, p |-> p, n |-> n, err |-> err]
    /\ ncalls' = ncalls + 1

\* HandshakeFailure without the responseWritten guard
HandshakeFailureUnguarded(msg, res) ==
    /\ ncalls < MaxCalls
    /\ res \in StreamResults(WriteTCPResponse(FALSE, msg, <<>>))
    /\ responseWritten' = TRUE
    /\ StreamWrite(WriteTCPResponse(FALSE, msg, <<>>), res)
    /\ Returned("HandshakeFailure", <<>>, 0, res.err)
    /\ UNCHANGED <<cfgVars, regVars, lockVars, acceptVars, sessVars, closeVars, streamVars, logs>>

\* lines 316-324
HandshakeFailure(msg, res) ==
    /\ ncalls < MaxCalls
    /\ IF responseWritten
       THEN /\ Returned("HandshakeFailure", <<>>, 0, "os.ErrClosed")
            /\ UNCHANGED <<responseWritten, wire, streamBroken>>
       ELSE /\ res \in StreamResults(WriteTCPResponse(FALSE, msg, <<>>))
            /\ responseWritten' = TRUE
            /\ StreamWrite(WriteTCPResponse(FALSE, msg, <<>>), res)
            /\ Returned("HandshakeFailure", <<>>, 0, res.err)
    /\ UNCHANGED <<cfgVars, regVars, lockVars, acceptVars, sessVars, closeVars, streamVars, logs>>

\* HandshakeSuccess without the responseWritten guard
HandshakeSuccessUnguarded(res) ==
    /\ ncalls < MaxCalls
    /\ res \in StreamResults(WriteTCPResponse(TRUE, "", <<>>))
    /\ responseWritten' = TRUE
    /\ StreamWrite(WriteTCPResponse(TRUE, "", <<>>), res)
    /\ Returned("HandshakeSuccess", <<>>, 0, res.err)
    /\ UNCHANGED <<cfgVars, regVars, lockVars, acceptVars, sessVars, closeVars, streamVars, logs>>

\* lines 326-334
HandshakeSuccess(res) ==
    /\ ncalls < MaxCalls
    /\ IF responseWritten
       THEN /\ Returned("HandshakeSuccess", <<>>, 0, "nil")
            /\ UNCHANGED <<responseWritten, wire, streamBroken>>
       ELSE /\ res \in StreamResults(WriteTCPResponse(TRUE, "", <<>>))
            /\ responseWritten' = TRUE
            /\ StreamWrite(WriteTCPResponse(TRUE, "", <<>>), res)
            /\ Returned("HandshakeSuccess", <<>>, 0, res.err)
    /\ UNCHANGED <<cfgVars, regVars, lockVars, acceptVars, sessVars, closeVars, streamVars, logs>>

\* Write returning the stream's count of the framed buffer on the first write
WriteFramedCount(p, res) ==
    /\ ncalls < MaxCalls
    /\ IF ~responseWritten
       THEN /\ res \in StreamResults(WriteTCPResponse(TRUE, "", p))
            /\ responseWritten' = TRUE
            /\ StreamWrite(WriteTCPResponse(TRUE, "", p), res)
            /\ Returned("Write", p, res.n, res.err)
       ELSE /\ res \in StreamResults(RawBytes(p))
            /\ StreamWrite(RawBytes(p), res)
            /\ Returned("Write", p, res.n, res.err)
            /\ UNCHANGED responseWritten
    /\ UNCHANGED <<cfgVars, regVars, lockVars, acceptVars, sessVars, closeVars, streamVars, logs>>

\* lines 341-354
Write(p, res) ==
    /\ ncalls < MaxCalls
    /\ IF ~responseWritten
       THEN /\ res \in StreamResults(WriteTCPResponse(TRUE, "", p))
            /\ responseWritten' = TRUE
            /\ StreamWrite(WriteTCPResponse(TRUE, "", p), res)
            /\ IF res.err # "nil"
               THEN Returned("Write", p, 0, res.err)
               ELSE Returned("Write", p, Len(p), "nil")
       ELSE /\ res \in StreamResults(RawBytes(p))
            /\ StreamWrite(RawBytes(p), res)
            /\ Returned("Write", p, res.n, res.err)
            /\ UNCHANGED responseWritten
    /\ UNCHANGED <<cfgVars, regVars, lockVars, acceptVars, sessVars, closeVars, streamVars, logs>>

\* ------------------------------------------------------------- states
InitConfig ==
    /\ sendBPS \in Rates
    /\ receiveBPS \in Rates
    /\ ignoreClientBandwidth \in BOOLEAN
    /\ udpDisabled \in BOOLEAN
    /\ ctxCancellable \in BOOLEAN

\* lines 175-181: the session of a freshly accepted connection
InitSession ==
    /\ userMap = Registry
    /\ upd = IdleUpdate
    /\ stale = {}
    /\ racy = {}
    /\ closers = [k \in Closers |-> IdleCloser]
    /\ connAccess = 0
    /\ doneCloses = 0
    /\ lcPc = "accepting"
    /\ accepted = 0
    /\ spawned = 0
    /\ authenticated = FALSE
    /\ authUser = NoUser
    /\ connDone = FALSE
    /\ connErr = "nil"
    /\ congestion = [kind |-> "none", rate |-> 0]
    /\ ccInstalls = 0
    /\ closeCalls = 0
    /\ reqs = [i \in Slots |-> IdleReq]
    /\ streams = <<>>
    /\ declined = 0
    /\ lastHijack = NoHijack
    /\ watchers = <<>>
    /\ loops = 0
    /\ hcPc = "serving"
    /\ ctxCancelled = FALSE
    /\ logs = <<>>

InitConn ==
    /\ responseWritten = FALSE
    /\ wire = <<>>
    /\ ncalls = 0
    /\ last = NoCall
    /\ streamBroken = FALSE

Init == InitConfig /\ InitSession /\ InitConn

\* A service with the zero-valued options
InitZeroConfig ==
    /\ sendBPS = 0
    /\ receiveBPS = 0
    /\ ignoreClientBandwidth = FALSE
    /\ udpDisabled = FALSE
    /\ ctxCancellable = FALSE

InitAdapter == InitZeroConfig /\ InitSession /\ InitConn

ServeHTTP(i) ==
    \/ \E r \in ReqInputs : ServeHTTP_Route(i, r)
    \/ ServeHTTP_Lookup(i)
    \/ ServeHTTP_BindUser(i)
    \/ ServeHTTP_SetAuthenticated(i)
    \/ ServeHTTP_Select(i)
    \/ ServeHTTP_Respond(i)

Next ==
    \/ \E i \in Slots : ServeHTTP(i)
    \/ \E f \in {FrameTypeTCPRequest, "FrameTypeOther"}, e \in BOOLEAN : handleStream0(f, e)

Spec == Init /\ [][Next]_vars

\* The HTTP requests of one connection alone, served concurrently.
NextAuth == \E i \in Slots : ServeHTTP(i)

SpecAuth == Init /\ [][NextAuth]_vars

\* The streams of one connection: auth requests with a registered or an
\* unregistered secret, stream arrivals and the tasks of the claimed streams.
StreamInputs == {Request("POST", URLHost, URLPath, "s1", <<>>),
                 Request("POST", URLHost, URLPath, "bad", <<>>)}
FrameTypes == {FrameTypeTCPRequest, "FrameTypeOther"}

ServeHTTPStream(i) ==
    \/ \E r \in StreamInputs : ServeHTTP_Route(i, r)
    \/ ServeHTTP_Lookup(i)
    \/ ServeHTTP_BindUser(i)
    \/ ServeHTTP_SetAuthenticated(i)
    \/ ServeHTTP_Select(i)
    \/ ServeHTTP_Respond(i)

StreamTask(t) ==
    \/ \E ok \in BOOLEAN : Stream_ReadRequest(t, ok)
    \/ \E failed \in BOOLEAN : Stream_HandlerReturns(t, failed)
    \/ Stream_Finish(t)

NextStream ==
    \/ \E i \in Slots : ServeHTTPStream(i)
    \/ \E f \in FrameTypes, e \in BOOLEAN : handleStream0(f, e)
    \/ \E t \in 1 .. Len(streams) : StreamTask(t)

SpecStream == InitAdapter /\ [][NextStream]_vars

\* Auth requests with two different registered secrets, and the streams
\* claimed on the connection.
IdentInputs == {Request("POST", URLHost, URLPath, "s1", <<>>),
                Request("POST", URLHost, URLPath, "s2", <<>>)}

ServeHTTPIdent(i) ==
    \/ \E r \in IdentInputs : ServeHTTP_Route(i, r)
    \/ ServeHTTP_Lookup(i)
    \/ ServeHTTP_BindUser(i)
    \/ ServeHTTP_SetAuthenticated(i)
    \/ ServeHTTP_Select(i)
    \/ ServeHTTP_Respond(i)

NextIdent ==
    \/ \E i \in Slots : ServeHTTPIdent(i)
    \/ \E f \in FrameTypes, e \in BOOLEAN : handleStream0(f, e)
    \/ \E t \in 1 .. Len(streams) : StreamTask(t)

SpecIdent == InitAdapter /\ [][NextIdent]_vars

\* The credential registry: auth requests of a connection while UpdateUsers
\* replaces the registry.
UsersInputs == {Request("POST", URLHost, URLPath, "s1", <<>>),
                Request("POST", URLHost, URLPath, "s2", <<>>)}

ServeHTTPUsers(i) ==
    \/ \E r \in UsersInputs : ServeHTTP_Route(i, r)
    \/ ServeHTTP_Lookup(i)
    \/ ServeHTTP_BindUser(i)
    \/ ServeHTTP_SetAuthenticated(i)
    \/ ServeHTTP_Select(i)
    \/ ServeHTTP_Respond(i)

UpdateUsers ==
    \/ \E list \in UserLists : UpdateUsers_Begin(list)
    \/ UpdateUsers_Put
    \/ UpdateUsers_Store

NextUsers ==
    \/ \E i \in Slots : ServeHTTPUsers(i)
    \/ UpdateUsers

SpecUsers == InitAdapter /\ [][NextUsers]_vars

\* Concurrent and repeated calls of closeWithError on one session.
CloseWithError(k) ==
    \/ \E err \in CloseErrors : closeWithError_Call(k, err)
    \/ closeWithError_Lock(k)
    \/ closeWithError_Select(k)
    \/ closeWithError_SetErr(k)
    \/ closeWithError_CloseDone(k)
    \/ closeWithError_Log(k)
    \/ closeWithError_CloseTransport(k)
    \/ closeWithError_Unlock(k)

NextCloseOnce == \E k \in Closers : CloseWithError(k)

SpecCloseOnce == InitAdapter /\ [][NextCloseOnce]_vars

\* The accept loop, with the session of one accepted connection running.
loopConnections ==
    \/ LoopConnections_Accept
    \/ LoopConnections_Spawn
    \/ \E err \in AcceptErrors : LoopConnections_Fail(err)

NextAccept ==
    \/ loopConnections
    \/ ServeHTTPStream(1)
    \/ HandleConnection_Served
    \/ HandleConnection_Close

SpecAccept == InitAdapter /\ [][NextAccept]_vars

\* Every started task of a claimed stream keeps running: the scheduler does
\* not starve the steps after handleStream returns. The handler itself may
\* never return.
StreamFinishes(t) == t \in 1 .. Len(streams) /\ Stream_Finish(t)

\* The streams of a connection that serves a single HTTP request.
NextStreamFair ==
    \/ ServeHTTPStream(1)
    \/ \E f \in FrameTypes, e \in BOOLEAN : handleStream0(f, e)
    \/ \E t \in 1 .. Len(streams) : StreamTask(t)

SpecStreamFair ==
    InitAdapter /\ [][NextStreamFair]_vars
                /\ \A t \in 1 .. MaxStreams : WF_vars(StreamFinishes(t))

\* The teardown of an authenticated connection: one auth request, the
\* upstream cancellation, the watcher and the connection task.
CloseInputs == {Request("POST", URLHost, URLPath, "s1", <<>>),
                Request("POST", URLHost, URLPath, "s1", <<1>>)}

ServeHTTPClose(i) ==
    \/ \E r \in CloseInputs : ServeHTTP_Route(i, r)
    \/ ServeHTTP_Lookup(i)
    \/ ServeHTTP_BindUser(i)
    \/ ServeHTTP_SetAuthenticated(i)
    \/ ServeHTTP_Select(i)
    \/ ServeHTTP_Respond(i)

NextClose ==
    \/ \E i \in Slots : ServeHTTPClose(i)
    \/ CancelContext
    \/ \E k \in 1 .. Len(watchers) : Watcher_Cancelled(k)
    \/ \E k \in 1 .. Len(watchers) : Watcher_ConnDone(k)
    \/ HandleConnection_Served
    \/ HandleConnection_Close

SpecClose == Init /\ [][NextClose]_vars

\* The teardown of a session whose parent context can be cancelled, with the
\* goroutines scheduled: a watcher whose select has a ready case takes it,
\* and handleConnection goes on from ServeQUICConn's return to the close.
\* The cancellation of the upstream context and the end of the connection
\* are up to the environment.
InitCancellable ==
    /\ sendBPS = 0
    /\ receiveBPS = 0
    /\ ignoreClientBandwidth = FALSE
    /\ udpDisabled \in BOOLEAN
    /\ ctxCancellable = TRUE
    /\ InitSession
    /\ InitConn

WatcherRuns(k) == Watcher_Cancelled(k) \/ Watcher_ConnDone(k)

SpecCloseFair ==
    /\ InitCancellable
    /\ [][NextClose]_vars
    /\ \A k \in Slots : WF_vars(k <= Len(watchers) /\ WatcherRuns(k))
    /\ WF_vars(HandleConnection_Close)
    /\ \A i \in Slots : WF_vars(ServeHTTP_Lookup(i) \/ ServeHTTP_BindUser(i)
                                  \/ ServeHTTP_SetAuthenticated(i)
                                  \/ ServeHTTP_Select(i) \/ ServeHTTP_Respond(i))

\* The life of one session: requests, stream events, registry updates and
\* close triggers.
NextLife ==
    \/ ServeHTTPUsers(1)
    \/ UpdateUsers
    \/ \E f \in FrameTypes, e \in BOOLEAN : handleStream0(f, e)
    \/ CancelContext
    \/ \E k \in 1 .. Len(watchers) : Watcher_Cancelled(k)
    \/ HandleConnection_Served
    \/ HandleConnection_Close

SpecLife == InitCancellable /\ [][NextLife]_vars

\* One stream adapter driven by its handler.
ResultSpace == [n : 0 .. MaxLen + 1, err : {"nil", "stream"}]

NextConn ==
    \/ \E res \in ResultSpace : HandshakeFailure("refused", res)
    \/ \E res \in ResultSpace : HandshakeSuccess(res)
    \/ \E p \in Buffers, res \in ResultSpace : Write(p, res)

SpecConn == InitAdapter /\ [][NextConn]_vars

\* ===================================================== claims C1 - C6
\* An auth request whose lookup found its secret in the registry
FoundSecret(i) == reqs[i].looked /\ reqs[i].user # NoUser

\* An auth request that went through the lookup and was answered with the
\* auth-success status: found, not rejected by the congestion policy
AuthSucceeded(i) == FoundSecret(i) /\ reqs[i].w.status = StatusAuthOK

\* An auth request answered on an already authenticated session
Repeated(i) ==
    /\ reqs[i].pc = "done"
    /\ IsAuthRequest(reqs[i].req)
    /\ ~reqs[i].looked

Quiescent == \A i \in Slots : reqs[i].pc \in {"idle", "done"}

Min(a, b) == IF a < b THEN a ELSE b

\* C1: a stream is claimed as a proxy stream only if an authentication
\* request on the same connection has succeeded before: its secret was found,
\* the congestion policy did not reject it and it was answered with the
\* auth-success status.
C1_ClaimOnlyAfterAuthSuccess ==
    Len(streams) > 0 => \E i \in Slots : AuthSucceeded(i)

\* C2: a policy-rejected auth request (registered secret, receive rate > 0,
\* client bandwidth ignored, no declared rate) is answered by the masquerade
\* handler and leaves the session unauthenticated.
C2_RejectLeavesUnauthenticated ==
    \A i \in Slots :
        ( /\ reqs[i].pc = "done"
          /\ FoundSecret(i)
          /\ receiveBPS > 0 /\ ignoreClientBandwidth
          /\ AuthRequestFromHeader(reqs[i].req).Rx = 0
          /\ \A j \in Slots \ {i} : reqs[j].pc = "idle" )
        => /\ reqs[i].w = Masquerade(NewWriter)
           /\ ~authenticated

\* A step in which request i is answered as a request for a non-auth target
\* or as an auth request whose secret is absent from the registry
AnsweredUnknown(i) ==
    /\ reqs[i].pc # "done"
    /\ reqs'[i].pc = "done"
    /\ \/ ~IsAuthRequest(reqs'[i].req)
       \/ reqs'[i].looked /\ reqs'[i].user = NoUser

\* C3: an auth request with an unregistered secret is handled exactly like a
\* request to a non-auth target: the masquerade handler is invoked once, no
\* auth-success status or auth header is written and the session state
\* (authenticated, identity, controller, watcher, datagram loop) is unchanged.
C3_MasqueradeIndistinguishable ==
    [][\A i \in Slots : AnsweredUnknown(i) =>
          /\ reqs'[i].w = Masquerade(NewWriter)
          /\ reqs'[i].w.status # StatusAuthOK
          /\ ~reqs'[i].w.hdr.set
          /\ UNCHANGED <<authenticated, authUser, congestion, ccInstalls,
                         watchers, loops, closeVars, logs>>]_vars

C3_Witness ==
    \E i, j \in Slots :
        /\ reqs[i].pc = "done" /\ reqs[i].looked /\ reqs[i].req.auth = "bad"
        /\ reqs[i].w.masq = 1
        /\ reqs[j].pc = "done" /\ ~IsAuthRequest(reqs[j].req)
        /\ reqs[j].w = reqs[i].w
        /\ ~authenticated

\* C4: the controller selection is the function of (receiveBPS,
\* ignoreClientBandwidth, clientRx, sendBPS) given by the three cases: reject
\* to the masquerade handler; Brutal at min(clientRx, sendBPS) when sendBPS > 0,
\* else clientRx, auto-rate false; otherwise BBR, auto-rate true. The auto-rate
\* flag is the one sent in the response, and the Brutal rate is sendBPS
\* whenever clientRx > sendBPS > 0.
C4_SelectionTable ==
    [][\A i \in Slots :
        LET rx == AuthRequestFromHeader(reqs[i].req).Rx
            case1 == receiveBPS > 0 /\ ignoreClientBandwidth /\ rx = 0
            case2 == ~case1 /\ ~(receiveBPS = 0 /\ ignoreClientBandwidth) /\ rx > 0
        IN /\ (reqs[i].pc = "select" /\ reqs'[i].pc # "select") =>
                /\ case1 => /\ reqs'[i].pc = "done"
                            /\ reqs'[i].w = Masquerade(NewWriter)
                            /\ UNCHANGED <<congestion, ccInstalls>>
                /\ case2 => /\ congestion'.kind = "brutal"
                            /\ congestion'.rate =
                                 IF sendBPS > 0 THEN Min(rx, sendBPS) ELSE rx
                            /\ (rx > sendBPS /\ sendBPS > 0) => congestion'.rate = sendBPS
                            /\ sendBPS > 0 => congestion'.rate <= sendBPS
                            /\ reqs'[i].pc = "respond"
                            /\ ~reqs'[i].rxAuto
                /\ (~case1 /\ ~case2) =>
                            /\ congestion'.kind = "bbr"
                            /\ reqs'[i].pc = "respond"
                            /\ reqs'[i].rxAuto
           /\ (reqs[i].pc = "respond" /\ reqs'[i].pc # "respond") =>
                /\ reqs'[i].w.status = StatusAuthOK
                /\ reqs'[i].w.hdr.RxAuto = (~case1 /\ ~case2)]_vars

C4_Witness ==
    \E i \in Slots :
        /\ reqs[i].pc = "done"
        /\ AuthSucceeded(i)
        /\ sendBPS > 0
        /\ AuthRequestFromHeader(reqs[i].req).Rx > sendBPS
        /\ congestion = [kind |-> "brutal", rate |-> sendBPS]
        /\ ~reqs[i].w.hdr.RxAuto

\* C5: every auth-success response sent on the connection is preceded by the
\* installation of a congestion controller on the connection.
C5_AuthOKOnlyAfterController ==
    \A i \in Slots : reqs[i].w.status = StatusAuthOK => congestion.kind # "none"

\* C6: a repeated auth request on an authenticated session is answered with
\* the response that was sent when the session authenticated: same UDP flag,
\* receive rate and auto-rate flag.
C6_RepeatEqualsFirst ==
    \A i, j \in Slots :
        (AuthSucceeded(i) /\ Repeated(j)) =>
            /\ reqs[j].w.status = StatusAuthOK
            /\ reqs[j].w.hdr = reqs[i].w.hdr

\* ==================================================== claims C7 - C10
Frames == {k \in 1 .. Len(wire) : wire[k].buf.frame}
SignalOps == {"HandshakeSuccess", "HandshakeFailure"}

\* A step that is a call of the adapter method op
Called(op) == ncalls' = ncalls + 1 /\ last'.op = op

C8_SignalAfterResponseFails ==
    [][(responseWritten /\ (Called("HandshakeSuccess") \/ Called("HandshakeFailure")))
          => (last'.err = "os.ErrClosed" /\ wire' = wire)]_vars

\* C8 amended: once a response frame has been written, a later
\* HandshakeFailure fails with os.ErrClosed and a later HandshakeSuccess
\* returns nil; neither writes anything to the stream.
C8_SignalAfterResponse ==
    [][/\ (responseWritten /\ Called("HandshakeFailure"))
            => (last'.err = "os.ErrClosed" /\ wire' = wire /\ responseWritten')
       /\ (responseWritten /\ Called("HandshakeSuccess"))
            => (last'.err = "nil" /\ wire' = wire /\ responseWritten')]_vars

C8_Witness ==
    /\ ncalls >= 2
    /\ last.op = "HandshakeSuccess"
    /\ last.err = "nil"
    /\ Frames = {1}
    /\ Len(wire) = 1

\* C9: a Write(p) before any response writes one success frame whose inline
\* payload is p, marks the response written and, when the stream write
\* succeeds, returns len(p); every later Write hands p to the stream as it is
\* and returns the stream's count.
C9_ImplicitSuccessWrite ==
    [][Called("Write") =>
          LET p == last'.p
              e == wire'[Len(wire')]
          IN /\ Len(wire') = Len(wire) + 1
             /\ SubSeq(wire', 1, Len(wire)) = wire
             /\ responseWritten'
             /\ ~responseWritten =>
                   /\ e.buf = WriteTCPResponse(TRUE, "", p)
                   /\ e.buf.frame /\ e.buf.ok /\ e.buf.payload = p
                   /\ e.err = "nil" => (last'.n = Len(p) /\ last'.err = "nil")
             /\ responseWritten =>
                   /\ ~e.buf.frame
                   /\ e.buf.payload = p
                   /\ e.buf.size = Len(p)
                   /\ last'.n = e.n
                   /\ last'.err = e.err]_vars

C9_Witness ==
    /\ ncalls = 1
    /\ last.op = "Write"
    /\ Len(last.p) > 0
    /\ last.err = "nil"
    /\ last.n = Len(last.p)
    /\ wire[1].buf.payload = last.p
    /\ wire[1].n > last.n

TeardownLogs == {k \in 1 .. Len(logs) : logs[k].msg = "connection failed"}

\* C10: when the teardown of an authenticated connection is triggered both by
\* the upstream cancellation (the watcher calling closeWithError) and by the
\* completion of the connection (handleConnection after ServeQUICConn), there
\* is exactly one teardown log line and exactly one quicConn.CloseWithError
\* call in total.
C10_OneLogOneClose ==
    ( /\ authenticated
      /\ ctxCancellable
      /\ \E k \in 1 .. Len(watchers) : watchers[k] = "done"
      /\ connErr = "context canceled"
      /\ hcPc = "closed" )
    => /\ Cardinality(TeardownLogs) = 1
       /\ closeCalls = 1

\* =================================================== claims C11 - C20
StreamErrorLogs ==
    {k \in 1 .. Len(logs) : logs[k] = [level |-> "error", msg |-> "handle stream request"]}

\* C11: when the downstream handler returns an error for a claimed stream, an
\* error-level log entry is emitted, that stream is read-cancelled and closed,
\* and the connection is not closed.
C11_HandlerErrorLoggedAndLocal ==
    \A t \in 1 .. Len(streams) :
        (streams[t].pc = "closed" /\ streams[t].handlerErr) =>
            /\ StreamErrorLogs # {}
            /\ streams[t].cancelReads >= 1
            /\ streams[t].closes >= 1
            /\ closeCalls = 0
            /\ ~connDone

\* A step that is a call of handleStream0
Hijacked == Len(streams') + declined' = Len(streams) + declined + 1

\* C16: handleStream0 claims a stream (returns true and starts its task) if
\* and only if the session is authenticated, the transport error is nil and
\* the frame type is the TCP-request frame type; otherwise it returns false,
\* starts no task and leaves the streams alone.
C16_HijackPredicate ==
    [][Hijacked =>
          LET h == lastHijack'
              qualifies == authenticated /\ ~h.err /\ h.frameType = FrameTypeTCPRequest
          IN /\ h.claimed = qualifies
             /\ qualifies => (streams' = Append(streams, NewStreamTask) /\ declined' = declined)
             /\ ~qualifies => (streams' = streams /\ declined' = declined + 1)
             /\ UNCHANGED <<sessVars, closeVars, logs>>]_vars

C16_Witness ==
    /\ lastHijack.claimed
    /\ declined >= 1
    /\ Len(streams) >= 1

StreamClosed(t) ==
    /\ t <= Len(streams)
    /\ streams[t].pc = "closed"
    /\ streams[t].cancelReads >= 1
    /\ streams[t].closes >= 1

\* C17: every claimed stream whose processing has returned (request frame
\* unreadable, or handler returned with or without error) is eventually
\* read-cancelled and closed; handleStream0 returns without running the
\* stream's processing and leaves the other stream tasks as they are.
C17_StreamsEventuallyClosed ==
    /\ \A t \in 1 .. MaxStreams :
          (t <= Len(streams) /\ streams[t].pc = "returned") ~> StreamClosed(t)
    /\ [][(Hijacked /\ lastHijack'.claimed) =>
             /\ streams'[Len(streams')].pc = "handleStream"
             /\ SubSeq(streams', 1, Len(streams)) = streams]_vars

C17_Witness ==
    /\ Len(streams) >= 2
    /\ streams[1].pc = "handler"
    /\ StreamClosed(2)

\* C14: on one connection at most one cancellation watcher and at most one
\* datagram loop are ever started, and the congestion controller is installed
\* at most once, also when two valid auth requests are served concurrently.
C14_SpawnedAtMostOnce ==
    /\ Len(watchers) <= 1
    /\ loops <= 1
    /\ ccInstalls <= 1

\* C20: once the session has bound an identity (authUser), the identity never
\* changes, and every claimed stream is handed to the handler with it.
C20_IdentityStable ==
    [][authUser # NoUser =>
          /\ authUser' = authUser
          /\ \A t \in 1 .. Len(streams') :
                streams'[t].user \in {NoUser, authUser}]_vars

\* C12: every credential lookup observes the complete old registry or a
\* complete new one, never a partially built mapping; once UpdateUsers has
\* returned, a secret absent from the new registry is not found by a lookup
\* of an unauthenticated session.
C12_RegistrySnapshots ==
    \A i \in Slots : reqs[i].looked =>
        /\ reqs[i].seen \in {Registry} \cup racy
        /\ AuthRequestFromHeader(reqs[i].req).Auth \notin DOMAIN reqs[i].cur
              => reqs[i].user = NoUser

\* The transport closes issued by closeWithError, over all callers
RECURSIVE SumTransportCloses(_)
SumTransportCloses(S) ==
    IF S = {} THEN 0
    ELSE LET k == CHOOSE x \in S : TRUE
         IN closers[k].transportCloses + SumTransportCloses(S \ {k})

\* A call of closeWithError is past the select on connDone
PastSelect(k) == closers[k].pc \in {"setErr", "closeDone", "log", "closeTransport", "unlock"}

\* The state of a session under concurrent calls of closeWithError
CloseOnceState ==
    /\ doneCloses <= 1
    /\ Cardinality(TeardownLogs) <= 1
    /\ SumTransportCloses(Closers) <= 1
    /\ connDone => doneCloses = 1 /\ connErr \in CloseErrors
    /\ (\A k \in Closers : closers[k].pc = "idle") /\ connDone =>
          /\ Cardinality(TeardownLogs) = 1
          /\ SumTransportCloses(Closers) = 1
          /\ \A n \in TeardownLogs : logs[n].level =
                (IF IsClosedOrCanceled(connErr) THEN "debug" ELSE "error")

\* C13: under concurrent and repeated calls of closeWithError connDone is
\* closed at most once, and exactly once when a call has run; connErr is
\* set by the caller that holds the lock while connDone is open, and never
\* overwritten afterwards; one teardown log entry and one transport
\* CloseWithError are produced; a call that finds connDone closed goes to
\* the unlock without an effect.
C13_CloseExactlyOnce ==
    /\ []CloseOnceState
    /\ [][/\ connDone => connErr' = connErr /\ connDone' /\ doneCloses' = doneCloses
          /\ connErr' # connErr =>
                \E k \in Closers : connAccess = k /\ connErr' = closers[k].err
          /\ \A k \in Closers :
               (connDone /\ closers[k].pc = "select" /\ closers'[k].pc # "select")
                  => /\ closers'[k].pc = "unlock"
                     /\ UNCHANGED <<connErr, connDone, logs, closeCalls, doneCloses>>]_vars

\* Two callers with different errors have both returned and the session is
\* closed with the error of one of them.
C13_Witness ==
    /\ connDone
    /\ doneCloses = 1
    /\ \A k \in Closers : closers[k].pc = "idle" /\ closers[k].err # "nil"
    /\ \E j, k \in Closers : closers[j].err # closers[k].err
    /\ \E k \in Closers : closers[k].transportCloses = 0

ListenerLogs == {n \in 1 .. Len(logs) : logs[n].msg = "listener closed"}

\* The accept loop in a state: every accepted connection has its task, but
\* the one being handed over; Accept is taken whatever the sessions do; one
\* log entry exactly when the loop has exited.
AcceptorState ==
    /\ lcPc = "accepting" => spawned = accepted
    /\ lcPc = "spawn" => accepted = spawned + 1
    /\ (lcPc = "accepting" /\ accepted < MaxConns) => ENABLED LoopConnections_Accept
    /\ Cardinality(ListenerLogs) = (IF lcPc = "exited" THEN 1 ELSE 0)

\* C18: each accepted connection is handed to its own task and the loop
\* returns to Accept without waiting for a session; on the first Accept
\* error the loop logs once and exits; after that it accepts nothing and
\* logs nothing; the exit closes no connection and changes no session.
C18_AcceptorLoop ==
    /\ []AcceptorState
    /\ [][/\ lcPc = "exited" => UNCHANGED <<acceptVars>>
                                /\ ListenerLogs' = ListenerLogs
          /\ (lcPc # "exited" /\ lcPc' = "exited") =>
                /\ lcPc = "accepting"
                /\ Len(logs') = Len(logs) + 1
                /\ UNCHANGED <<accepted, spawned, lockVars, sessVars, closeVars,
                               streamVars, connVars>>]_vars

\* The loop has exited after handing over two connections, while an
\* authenticated session is still being served.
C18_Witness ==
    /\ lcPc = "exited"
    /\ spawned >= 2
    /\ authenticated
    /\ hcPc = "serving"
    /\ ~connDone

\* C19: for an authenticated session with a cancellable parent context and
\* UDP disabled, once ServeQUICConn has returned and handleConnection has
\* closed the transport, connDone is eventually closed and every watcher
\* terminates.
C19_NaturalCompletionClosesDone ==
    (udpDisabled /\ ctxCancellable /\ authenticated /\ hcPc = "closed"
        /\ Len(watchers) > 0)
      ~> (connDone /\ \A k \in 1 .. Len(watchers) : watchers[k] = "done")

\* The state of the session: Closed once the done signal is closed or
\* handleConnection has closed the transport
SessionState ==
    IF connDone \/ hcPc = "closed" THEN "Closed"
    ELSE IF authenticated THEN "Authenticated"
    ELSE "Unauthenticated"

SessionTransitions ==
    { <<"Unauthenticated", "Authenticated">>,
      <<"Unauthenticated", "Closed">>,
      <<"Authenticated", "Closed">> }

\* C15: over requests, stream events, registry updates and close triggers,
\* authenticated, once true, stays true, also across a registry update that
\* removes the session's secret; the session state moves only from
\* Unauthenticated to Authenticated, and from either to Closed.
C15_AuthenticationMonotonic ==
    [][/\ authenticated => authenticated'
       /\ SessionState' # SessionState =>
             <<SessionState, SessionState'>> \in SessionTransitions]_vars

\* The session is authenticated and still open after an UpdateUsers that
\* removed its secret from the registry.
C15_Witness ==
    /\ authenticated
    /\ SessionState = "Authenticated"
    /\ upd.returned > 0
    /\ \A k \in DOMAIN userMap : userMap[k] # authUser

====
